---- MODULE Spec2Model ----
(***************************************************************************)
(* Model of src/src/app.py: the module-level dataset df, run_forecast      *)
(* (filter, monthly resample, Prophet fit, make_future_dataframe, predict) *)
(* and the Dash callback update_forecast (KPIs and next-month lookup).     *)
(*                                                                         *)
(* Dates are <<year, month, day>>.  Sales values are integers.  Point      *)
(* forecasts (yhat) are integers in thousandths of a unit, formatted KPI   *)
(* strings are integers in hundredths (the two decimals of ",.2f").        *)
(*                                                                         *)
(* pandas and Prophet are libraries outside the repository.  The calendar  *)
(* operations the code asks of them (resample("ME").sum(), date_range with *)
(* freq "ME", MonthEnd(1)) are modelled by what they compute.  Prophet's   *)
(* optimiser is opaque: a fit yields one of FitParams and yhat is the      *)
(* linear trend k + m * row.  The uncertainty columns yhat_lower and       *)
(* yhat_upper are quantiles of random draws made inside Prophet; the code  *)
(* only hands them to the plot, and they are not modelled.                 *)
(***************************************************************************)
EXTENDS Integers, Sequences, FiniteSets

VARIABLES df, threads, pc, coffee, forecast_period, df_coffee, model,
          future, forecast, out, err

vars == <<df, threads, pc, coffee, forecast_period, df_coffee, model,
          future, forecast, out, err>>

(***************************************************************************)
(* Bounds of the model.                                                    *)
(***************************************************************************)
MaxObs == 4
MaxHorizon == 2

Requests == {"r1", "r2"}
Ingredients == {"Colombia", "Brazil"}

\* The largest horizon the slider offers (max=24).
SliderMax == 24

\* Horizons a call may carry: the small ones, 0 included (run_forecast does
\* not check its argument), and the slider's maximum.
Horizons == (0..MaxHorizon) \cup {SliderMax}

\* What a fit may yield: intercept k and monthly slope m, in thousandths.
FitParams == {[k |-> 12345, m |-> 1005], [k |-> -2505, m |-> 1000]}

Ob(d, c, v) == [ds |-> d, ingredient |-> c, y |-> v]

\* The rows sales.csv may hold: two sales in December 2023 (one of them on
\* the month's last day) and one in February 2024, of either coffee type.
Observations ==
    UNION {{Ob(<<2023, 12, 15>>, c, 5), Ob(<<2023, 12, 31>>, c, 3),
            Ob(<<2024, 2, 10>>, c, 7)} : c \in Ingredients}

(***************************************************************************)
(* Calendar.                                                               *)
(***************************************************************************)
IsLeap(y) == (y % 4 = 0 /\ y % 100 # 0) \/ y % 400 = 0

DaysInMonth(y, m) ==
    IF m = 2 THEN (IF IsLeap(y) THEN 29 ELSE 28)
    ELSE IF m \in {4, 6, 9, 11} THEN 30 ELSE 31

MonthIdx(d) == d[1] * 12 + d[2] - 1

MonthEndOf(mi) ==
    LET y == mi \div 12
        m == (mi % 12) + 1
    IN <<y, m, DaysInMonth(y, m)>>

IsMonthEnd(d) == d[3] = DaysInMonth(d[1], d[2])

DateLT(a, b) ==
    \/ a[1] < b[1]
    \/ a[1] = b[1] /\ a[2] < b[2]
    \/ a[1] = b[1] /\ a[2] = b[2] /\ a[3] < b[3]

\* d + pd.offsets.MonthEnd(1): the next month-end strictly after d.
MonthEndOffset(d) ==
    IF IsMonthEnd(d) THEN MonthEndOf(MonthIdx(d) + 1) ELSE MonthEndOf(MonthIdx(d))

RECURSIVE SumY(_)
SumY(s) == IF s = <<>> THEN 0 ELSE Head(s).y + SumY(Tail(s))

\* a / b rounded to the nearest integer, ties to even (b > 0).
RoundDiv(a, b) ==
    LET q == a \div b
        r == a % b
    IN IF 2 * r < b THEN q
       ELSE IF 2 * r > b THEN q + 1
       ELSE IF q % 2 = 0 THEN q ELSE q + 1

(***************************************************************************)
(* run_forecast, line 32: the rows of df of the selected coffee type.      *)
(***************************************************************************)
Filter(d, c) == SelectSeq(d, LAMBDA o : o.ingredient = c)

MonthsOf(obs) == {MonthIdx(obs[i].ds) : i \in DOMAIN obs}

MinOf(S) == CHOOSE x \in S : \A z \in S : x <= z

MaxOf(S) == CHOOSE x \in S : \A z \in S : z <= x

(***************************************************************************)
(* run_forecast, line 35: set_index("ds").resample("ME").sum().            *)
(* One bin per calendar month from the first to the last observed month,   *)
(* labelled by the month's end; a bin's y is the sum of its rows, and the  *)
(* sum of an empty bin is 0.  The result is ordered by ds whatever the     *)
(* order of the input rows.                                                *)
(***************************************************************************)
\* Variant: .mean() in place of .sum().
ResampleMean(obs) ==
    IF obs = <<>> THEN <<>>
    ELSE LET first == MinOf(MonthsOf(obs))
             last == MaxOf(MonthsOf(obs))
         IN [i \in 1..(last - first + 1) |->
               LET bin == SelectSeq(obs, LAMBDA o : MonthIdx(o.ds) = first + i - 1)
               IN [ds |-> MonthEndOf(first + i - 1),
                   y |-> IF bin = <<>> THEN 0 ELSE SumY(bin) \div Len(bin)]]

RECURSIVE GroupMonths(_, _, _)
GroupMonths(obs, mi, last) ==
    IF mi > last THEN <<>>
    ELSE LET bin == SelectSeq(obs, LAMBDA o : MonthIdx(o.ds) = mi)
         IN (IF bin = <<>> THEN <<>> ELSE <<[ds |-> MonthEndOf(mi), y |-> SumY(bin)]>>)
            \o GroupMonths(obs, mi + 1, last)

\* Variant: a group-by of the observed months, which leaves empty months out.
ResampleNoFill(obs) ==
    IF obs = <<>> THEN <<>>
    ELSE GroupMonths(obs, MinOf(MonthsOf(obs)), MaxOf(MonthsOf(obs)))

Resample(obs) ==
    IF obs = <<>> THEN <<>>
    ELSE LET first == MinOf(MonthsOf(obs))
             last == MaxOf(MonthsOf(obs))
         IN [i \in 1..(last - first + 1) |->
               [ds |-> MonthEndOf(first + i - 1),
                y |-> SumY(SelectSeq(obs, LAMBDA o : MonthIdx(o.ds) = first + i - 1))]]

(***************************************************************************)
(* The Prophet object held by the local variable model of run_forecast.    *)
(***************************************************************************)
NoParams == [k |-> 0, m |-> 0]

NoModel == [state |-> "NONE", history |-> <<>>, params |-> NoParams, fit_by |-> "none"]

UnfitModel == [state |-> "UNFIT", history |-> <<>>, params |-> NoParams, fit_by |-> "none"]

\* Variant: one module-level Prophet object used by every call.
ModelSlotShared(r) == "r1"

\* Each call of run_forecast binds a Prophet object of its own (line 39).
ModelSlot(r) == r

DsOf(s) == [i \in DOMAIN s |-> s[i].ds]

MaxDate(dates) ==
    CHOOSE d \in {dates[i] : i \in DOMAIN dates} :
        \A i \in DOMAIN dates : dates[i] = d \/ DateLT(dates[i], d)

\* pd.date_range(start, periods = n, freq = "ME"): n month-ends, the first
\* one the month-end on or after start.
DateRange(start, n) == [i \in 1..n |-> MonthEndOf(MonthIdx(start) + i - 1)]

(***************************************************************************)
(* run_forecast, line 43: model.make_future_dataframe(periods, freq="ME"). *)
(* The history's dates followed by the first `periods` dates of            *)
(* date_range(last_date, periods + 1) that lie after last_date.            *)
(***************************************************************************)
\* Variant: include_history=False.
MakeFutureNoHistory(history, periods) ==
    LET last_date == MaxDate(DsOf(history))
        dates == SelectSeq(DateRange(last_date, periods + 1),
                           LAMBDA d : DateLT(last_date, d))
    IN SubSeq(dates, 1, IF periods < Len(dates) THEN periods ELSE Len(dates))

\* Variant: the date range is not cut to the dates after last_date.
MakeFutureFromLast(history, periods) ==
    LET last_date == MaxDate(DsOf(history))
        dates == DateRange(last_date, periods + 1)
    IN DsOf(history) \o SubSeq(dates, 1, IF periods < Len(dates) THEN periods ELSE Len(dates))

MakeFutureDataframe(history, periods) ==
    LET last_date == MaxDate(DsOf(history))
        dates == SelectSeq(DateRange(last_date, periods + 1),
                           LAMBDA d : DateLT(last_date, d))
    IN DsOf(history) \o SubSeq(dates, 1, IF periods < Len(dates) THEN periods ELSE Len(dates))

(***************************************************************************)
(* run_forecast, line 44: model.predict(future).  One row per date of      *)
(* future; yhat is the fitted trend at the row's distance, in months, from *)
(* the start of the history the model was fit on.                          *)
(***************************************************************************)
Predict(mdl, fut) ==
    [i \in DOMAIN fut |->
        [ds |-> fut[i],
         yhat |-> mdl.params.k
                  + mdl.params.m * (MonthIdx(fut[i]) - MonthIdx(mdl.history[1].ds))]]

(***************************************************************************)
(* update_forecast, lines 179-191 and 253-258: the three KPI strings.      *)
(* next is round(yhat, 2) of the first forecast row dated next_month, or   *)
(* "N/A" when there is none.                                               *)
(***************************************************************************)
NotAvailable == [kind |-> "N/A", cents |-> 0]

Number(c) == [kind |-> "num", cents |-> c]

\* Variant: the last row of the forecast in place of the row dated next_month.
NextMonthForecastLast(series, fc) ==
    IF fc # <<>> THEN Number(RoundDiv(fc[Len(fc)].yhat, 10)) ELSE NotAvailable

NextMonthForecast(series, fc) ==
    LET last_date == MaxDate(DsOf(series))
        next_month == MonthEndOffset(last_date)
        next_month_data == SelectSeq(fc, LAMBDA row : row.ds = next_month)
    IN IF next_month_data # <<>>
       THEN Number(RoundDiv(next_month_data[1].yhat, 10))
       ELSE NotAvailable

Summarize(series, fc) ==
    [total |-> 100 * SumY(series),
     avg |-> RoundDiv(100 * SumY(series), Len(series)),
     next |-> NextMonthForecast(series, fc)]

NoOut == [total |-> 0, avg |-> 0, next |-> [kind |-> "none", cents |-> 0]]

(***************************************************************************)
(* Prophet.fit, called at line 40, raises ValueError ("Dataframe has less  *)
(* than 2 non-NaN rows") before it fits anything.                          *)
(***************************************************************************)
\* Variant: a single row is accepted.
FitAcceptsOne(series) == Len(series) >= 1

FitAccepts(series) == Len(series) >= 2

(***************************************************************************)
(* Initial states: the dataset read at import (lines 10-17), rows in any   *)
(* order, and no callback running.  threads is the set of callbacks the    *)
(* server runs at a time.                                                  *)
(***************************************************************************)
Datasets == UNION {[1..n -> Observations] : n \in 0..MaxObs}

ConcDatasets ==
    {<<Ob(<<2023, 12, 15>>, "Colombia", v[1]), Ob(<<2024, 2, 10>>, "Brazil", v[2]),
       Ob(<<2024, 2, 10>>, "Colombia", v[3]), Ob(<<2024, 1, 31>>, "Brazil", v[4])>> :
        v \in [1..4 -> {3, 5}]}

Idle ==
    /\ pc = [r \in Requests |-> "idle"]
    /\ coffee = [r \in Requests |-> "none"]
    /\ forecast_period = [r \in Requests |-> 0]
    /\ df_coffee = [r \in Requests |-> <<>>]
    /\ model = [r \in Requests |-> NoModel]
    /\ future = [r \in Requests |-> <<>>]
    /\ forecast = [r \in Requests |-> <<>>]
    /\ out = [r \in Requests |-> NoOut]
    /\ err = [r \in Requests |-> "none"]

Init ==
    /\ df \in Datasets
    /\ threads = {"r1"}
    /\ Idle

InitConc ==
    /\ df \in ConcDatasets
    /\ threads = Requests
    /\ Idle

(***************************************************************************)
(* update_forecast(coffee, forecast_period), line 174-176: the callback    *)
(* starts and calls run_forecast.                                          *)
(***************************************************************************)
Callback(r, c, h) ==
    /\ r \in threads
    /\ pc[r] = "idle"
    /\ pc' = [pc EXCEPT ![r] = "filter"]
    /\ coffee' = [coffee EXCEPT ![r] = c]
    /\ forecast_period' = [forecast_period EXCEPT ![r] = h]
    /\ UNCHANGED <<df, threads, df_coffee, model, future, forecast, out, err>>

\* line 32
FilterStep(r) ==
    /\ pc[r] = "filter"
    /\ df_coffee' = [df_coffee EXCEPT ![r] = Filter(df, coffee[r])]
    /\ pc' = [pc EXCEPT ![r] = "resample"]
    /\ UNCHANGED <<df, threads, coffee, forecast_period, model, future, forecast, out, err>>

\* line 35
ResampleStep(r) ==
    /\ pc[r] = "resample"
    /\ df_coffee' = [df_coffee EXCEPT ![r] = Resample(df_coffee[r])]
    /\ pc' = [pc EXCEPT ![r] = "construct"]
    /\ UNCHANGED <<df, threads, coffee, forecast_period, model, future, forecast, out, err>>

\* line 39: a new, unfit Prophet object
Construct(r) ==
    /\ pc[r] = "construct"
    /\ model' = [model EXCEPT ![ModelSlot(r)] = UnfitModel]
    /\ pc' = [pc EXCEPT ![r] = "fit"]
    /\ UNCHANGED <<df, threads, coffee, forecast_period, df_coffee, future, forecast, out, err>>

Raise(r, e) ==
    /\ pc' = [pc EXCEPT ![r] = "failed"]
    /\ err' = [err EXCEPT ![r] = e]

\* Variant: line 40 left out, the model goes to make_future_dataframe unfit.
FitSkipped(r) ==
    /\ pc[r] = "fit"
    /\ pc' = [pc EXCEPT ![r] = "future"]
    /\ UNCHANGED <<df, threads, coffee, forecast_period, df_coffee, model, future,
                   forecast, out, err>>

\* line 40: model.fit(df_coffee)
Fit(r) ==
    /\ pc[r] = "fit"
    /\ IF model[ModelSlot(r)].state # "UNFIT"
       THEN Raise(r, "FitTwice") /\ UNCHANGED model
       ELSE IF ~FitAccepts(df_coffee[r])
       THEN Raise(r, "ValueError") /\ UNCHANGED model
       ELSE /\ \E p \in FitParams :
                 model' = [model EXCEPT ![ModelSlot(r)] =
                              [state |-> "FIT", history |-> df_coffee[r],
                               params |-> p, fit_by |-> r]]
            /\ pc' = [pc EXCEPT ![r] = "future"]
            /\ UNCHANGED err
    /\ UNCHANGED <<df, threads, coffee, forecast_period, df_coffee, future, forecast, out>>

\* line 43: model.make_future_dataframe(periods=forecast_period, freq="ME")
MakeFuture(r) ==
    /\ pc[r] = "future"
    /\ IF model[ModelSlot(r)].state # "FIT"
       THEN Raise(r, "NotFit") /\ UNCHANGED future
       ELSE /\ future' = [future EXCEPT ![r] =
                   MakeFutureDataframe(model[ModelSlot(r)].history, forecast_period[r])]
            /\ pc' = [pc EXCEPT ![r] = "predict"]
            /\ UNCHANGED err
    /\ UNCHANGED <<df, threads, coffee, forecast_period, df_coffee, model, forecast, out>>

\* line 44-45: model.predict(future); return forecast, df_coffee
PredictStep(r) ==
    /\ pc[r] = "predict"
    /\ IF model[ModelSlot(r)].state # "FIT"
       THEN Raise(r, "NotFit") /\ UNCHANGED forecast
       ELSE /\ forecast' = [forecast EXCEPT ![r] = Predict(model[ModelSlot(r)], future[r])]
            /\ pc' = [pc EXCEPT ![r] = "kpi"]
            /\ UNCHANGED err
    /\ UNCHANGED <<df, threads, coffee, forecast_period, df_coffee, model, future, out>>

\* lines 178-265: the KPIs are derived and the callback returns
Kpi(r) ==
    /\ pc[r] = "kpi"
    /\ out' = [out EXCEPT ![r] = Summarize(df_coffee[r], forecast[r])]
    /\ pc' = [pc EXCEPT ![r] = "done"]
    /\ UNCHANGED <<df, threads, coffee, forecast_period, df_coffee, model, future,
                   forecast, err>>

\* The callback is over (returned or raised): its locals are gone, and the
\* next selection starts a new call.
Finish(r) ==
    /\ pc[r] \in {"done", "failed"}
    /\ pc' = [pc EXCEPT ![r] = "idle"]
    /\ coffee' = [coffee EXCEPT ![r] = "none"]
    /\ forecast_period' = [forecast_period EXCEPT ![r] = 0]
    /\ df_coffee' = [df_coffee EXCEPT ![r] = <<>>]
    /\ model' = [model EXCEPT ![ModelSlot(r)] = NoModel]
    /\ future' = [future EXCEPT ![r] = <<>>]
    /\ forecast' = [forecast EXCEPT ![r] = <<>>]
    /\ out' = [out EXCEPT ![r] = NoOut]
    /\ err' = [err EXCEPT ![r] = "none"]
    /\ UNCHANGED <<df, threads>>

Next ==
    \E r \in Requests :
        \/ \E c \in Ingredients, h \in Horizons : Callback(r, c, h)
        \/ FilterStep(r)
        \/ ResampleStep(r)
        \/ Construct(r)
        \/ Fit(r)
        \/ MakeFuture(r)
        \/ PredictStep(r)
        \/ Kpi(r)
        \/ Finish(r)

Spec == Init /\ [][Next]_vars

SpecConc == InitConc /\ [][Next]_vars

(***************************************************************************)
(* Properties.                                                             *)
(***************************************************************************)
Resampled == {"construct", "fit", "future", "predict", "kpi", "done", "failed"}

Predicted == {"kpi", "done"}

\* The indices of the rows of df of coffee type c (in month mi).
RowsOf(c) == {i \in DOMAIN df : df[i].ingredient = c}

RowsIn(c, mi) == {i \in RowsOf(c) : MonthIdx(df[i].ds) = mi}

ObservedMonths(c) == {MonthIdx(df[i].ds) : i \in RowsOf(c)}

RECURSIVE SumRows(_)
SumRows(I) ==
    IF I = {} THEN 0
    ELSE LET i == CHOOSE x \in I : TRUE IN df[i].y + SumRows(I \ {i})

PointsAt(s, d) == {j \in DOMAIN s : s[j].ds = d}

\* C1: after the resample, every calendar month that has observations of the
\* selected coffee type has exactly one point of the series, dated at that
\* month's end, whose value is the sum of the month's observation values.
Thm_C1_MonthlySum ==
    \A r \in Requests :
        pc[r] \in Resampled =>
            \A mi \in ObservedMonths(coffee[r]) :
                /\ Cardinality(PointsAt(df_coffee[r], MonthEndOf(mi))) = 1
                /\ \A j \in PointsAt(df_coffee[r], MonthEndOf(mi)) :
                       df_coffee[r][j].y = SumRows(RowsIn(coffee[r], mi))

\* A run returned a series whose December point sums the observations 5 and 3.
Wit_C1_TwoInOneMonth ==
    \E r \in Requests :
        /\ pc[r] = "done"
        /\ Cardinality(RowsIn(coffee[r], MonthIdx(<<2023, 12, 1>>))) = 2
        /\ {df[i].y : i \in RowsIn(coffee[r], MonthIdx(<<2023, 12, 1>>))} = {3, 5}
        /\ Cardinality(RowsIn(coffee[r], MonthIdx(<<2024, 2, 1>>))) = 1
        /\ df_coffee[r] = <<[ds |-> <<2023, 12, 31>>, y |-> 8],
                            [ds |-> <<2024, 1, 31>>, y |-> 0],
                            [ds |-> <<2024, 2, 29>>, y |-> 7]>>

\* C2: the series has one point for every month-end from the first to the
\* last observed month, in strictly increasing order, whatever the order of
\* the rows of df; a month of that range without observations has value 0.
Thm_C2_NoGaps ==
    \A r \in Requests :
        pc[r] \in Resampled =>
            LET s == df_coffee[r]
                M == ObservedMonths(coffee[r])
            IN IF M = {} THEN s = <<>>
               ELSE /\ Len(s) = MaxOf(M) - MinOf(M) + 1
                    /\ \A j \in DOMAIN s :
                           /\ s[j].ds = MonthEndOf(MinOf(M) + j - 1)
                           /\ (MinOf(M) + j - 1) \notin M => s[j].y = 0
                    /\ \A j \in 1..(Len(s) - 1) : DateLT(s[j].ds, s[j + 1].ds)

\* A run on rows given latest first, with an empty January between December
\* and February, returned a series holding the January point with value 0.
Wit_C2_GapMonth ==
    \E r \in Requests :
        /\ pc[r] = "done"
        /\ Len(df) >= 2 /\ DateLT(df[2].ds, df[1].ds)
        /\ df[1].ingredient = coffee[r] /\ df[2].ingredient = coffee[r]
        /\ Len(df_coffee[r]) = 3
        /\ df_coffee[r][2] = [ds |-> <<2024, 1, 31>>, y |-> 0]

\* C3: the forecast table of a series of N >= 2 points and horizon h has
\* N + h rows: the N period ends of the series, then the h month-ends that
\* follow the last one; consecutive rows are one month-end apart.
Thm_C3_ForecastRows ==
    \A r \in Requests :
        pc[r] \in Predicted =>
            LET s == df_coffee[r]
                f == forecast[r]
                N == Len(s)
                h == forecast_period[r]
            IN /\ N >= 2
               /\ Len(f) = N + h
               /\ \A i \in 1..N : f[i].ds = s[i].ds
               /\ \A i \in 1..h : f[N + i].ds = MonthEndOf(MonthIdx(s[N].ds) + i)
               /\ \A i \in DOMAIN f : IsMonthEnd(f[i].ds)
               /\ \A i \in 1..(Len(f) - 1) :
                      /\ DateLT(f[i].ds, f[i + 1].ds)
                      /\ MonthIdx(f[i + 1].ds) = MonthIdx(f[i].ds) + 1

\* A table of 3 + 2 rows whose future rows are March and April 2024.
Wit_C3_TwoAhead ==
    \E r \in Requests :
        /\ pc[r] = "done"
        /\ forecast_period[r] = 2
        /\ Len(df_coffee[r]) = 3
        /\ DsOf(forecast[r]) = <<<<2023, 12, 31>>, <<2024, 1, 31>>, <<2024, 2, 29>>,
                                 <<2024, 3, 31>>, <<2024, 4, 30>>>>

\* C4: a run with horizon < 1 never yields a forecast table or KPIs.
Cex_C4_HorizonRejected ==
    \A r \in Requests :
        (pc[r] # "idle" /\ forecast_period[r] < 1) =>
            /\ pc[r] \notin Predicted
            /\ forecast[r] = <<>>
            /\ out[r] = NoOut

\* C5: when the selected coffee type has observations in fewer than 2
\* calendar months, the run fails at fit (Prophet's ValueError) with no model
\* fit, no forecast row and no KPI.
Thm_C5_InsufficientData ==
    \A r \in Requests :
        (pc[r] # "idle" /\ Cardinality(ObservedMonths(coffee[r])) < 2) =>
            /\ pc[r] \notin {"future", "predict", "kpi", "done"}
            /\ model[ModelSlot(r)].state # "FIT"
            /\ future[r] = <<>> /\ forecast[r] = <<>> /\ out[r] = NoOut
            /\ (pc[r] = "failed" => err[r] = "ValueError")
            /\ (pc[r] # "failed" => err[r] = "none")

\* A run on two observations of the same month failed at fit.
Wit_C5_SingleMonth ==
    \E r \in Requests :
        /\ pc[r] = "failed"
        /\ err[r] = "ValueError"
        /\ Cardinality(RowsOf(coffee[r])) = 2
        /\ Len(df_coffee[r]) = 1

\* The rows of the forecast dated one month-end after the last period.
NextRows(r) ==
    LET s == df_coffee[r]
    IN {i \in DOMAIN forecast[r] :
            forecast[r][i].ds = MonthEndOf(MonthIdx(s[Len(s)].ds) + 1)}

\* C6 as stated: the next-period KPI is the yhat of the row dated one
\* month-end after the last observed period, and "N/A" exactly when the
\* table has no such row.
Cex_C6_KpiIsYhat ==
    \A r \in Requests :
        pc[r] = "done" =>
            /\ (NextRows(r) = {} <=> out[r].next = NotAvailable)
            /\ \A i \in NextRows(r) :
                   /\ out[r].next.kind = "num"
                   /\ 10 * out[r].next.cents = forecast[r][i].yhat

\* C6 as amended: the next-period KPI is the yhat of that row rounded to two
\* decimals, and "N/A" exactly when the table has no such row; the callback
\* raises nothing.
Thm_C6_KpiIsRoundedYhat ==
    \A r \in Requests :
        pc[r] = "done" =>
            /\ (NextRows(r) = {} <=> out[r].next = NotAvailable)
            /\ \A i \in NextRows(r) :
                   /\ out[r].next.kind = "num"
                   /\ out[r].next.cents = RoundDiv(forecast[r][i].yhat, 10)
            /\ err[r] = "none"

\* A run with horizon 2 returned a KPI from a next-month yhat that has a
\* third decimal, and that differs from the last row's.
Wit_C6_Rounded ==
    \E r \in Requests :
        /\ pc[r] = "done"
        /\ forecast_period[r] = 2
        /\ \E i \in NextRows(r) :
               /\ forecast[r][i].yhat % 10 # 0
               /\ out[r].next = Number(RoundDiv(forecast[r][i].yhat, 10))
               /\ forecast[r][Len(forecast[r])].yhat # forecast[r][i].yhat

\* What a call with coffee type c and horizon h returns when it runs alone on
\* dataset d and its fit yields p.
Alone(d, c, h, p) ==
    LET s == Resample(Filter(d, c))
        mdl == [state |-> "FIT", history |-> s, params |-> p, fit_by |-> "alone"]
        f == Predict(mdl, MakeFutureDataframe(s, h))
    IN [df_coffee |-> s, forecast |-> f, out |-> Summarize(s, f)]

Isolated ==
    \A r \in Requests :
        /\ pc[r] \in {"future", "predict", "kpi", "done"} =>
               /\ model[ModelSlot(r)].state = "FIT"
               /\ model[ModelSlot(r)].fit_by = r
               /\ model[ModelSlot(r)].history = df_coffee[r]
        /\ pc[r] = "done" =>
               \E p \in FitParams :
                   LET a == Alone(df, coffee[r], forecast_period[r], p)
                   IN /\ df_coffee[r] = a.df_coffee
                      /\ forecast[r] = a.forecast
                      /\ out[r] = a.out
        /\ pc[r] = "failed" =>
               /\ err[r] = "ValueError"
               /\ Len(Resample(Filter(df, coffee[r]))) < 2

\* C7: under any interleaving of concurrent callbacks, the model a run
\* predicts with is the one that run fit on its own series, a finished run's
\* result is the result of the same call running alone, and no step changes
\* the dataset df.
Thm_C7_Isolation == [][df' = df]_vars /\ []Isolated

\* Two callbacks for different coffee types are both between fit and predict.
Wit_C7_Interleaved ==
    /\ pc["r1"] = "predict" /\ pc["r2"] = "predict"
    /\ coffee["r1"] # coffee["r2"]
    /\ model["r1"].history # model["r2"].history

\* C9: a run that completes with horizon >= 1 has the next month's row in its
\* forecast table, and its next-period KPI is a number, never "N/A".
Thm_C9_NextRowPresent ==
    \A r \in Requests :
        (pc[r] = "done" /\ forecast_period[r] >= 1) =>
            /\ NextRows(r) # {}
            /\ out[r].next.kind = "num"

\* A run with horizon 1 returned a numeric next-period KPI.
Wit_C9_HorizonOne ==
    \E r \in Requests :
        /\ pc[r] = "done"
        /\ forecast_period[r] = 1
        /\ out[r].next.kind = "num"
        /\ Len(forecast[r]) = Len(df_coffee[r]) + 1

\* C10: a run holds no model before it constructs one, the model is unfit
\* when fit is called, and make_future_dataframe and predict are called only
\* on a model this run fit on its own series; no run ends with Prophet's
\* "Model has not been fit" or "can only be fit once".
Thm_C10_FitBeforePredict ==
    \A r \in Requests :
        /\ pc[r] \in {"idle", "filter", "resample", "construct"} =>
               model[ModelSlot(r)].state = "NONE"
        /\ pc[r] = "fit" => model[ModelSlot(r)].state = "UNFIT"
        /\ pc[r] \in {"future", "predict", "kpi", "done"} =>
               /\ model[ModelSlot(r)].state = "FIT"
               /\ model[ModelSlot(r)].fit_by = r
               /\ model[ModelSlot(r)].history = df_coffee[r]
        /\ err[r] \notin {"NotFit", "FitTwice"}

\* A run is about to call predict on the model it fit.
Wit_C10_FitThenPredict ==
    \E r \in Requests :
        /\ pc[r] = "predict"
        /\ model[ModelSlot(r)].state = "FIT"
        /\ model[ModelSlot(r)].history = df_coffee[r]
        /\ Len(future[r]) = Len(df_coffee[r]) + forecast_period[r]

====
